---------------------------- MODULE Spec2Model ----------------------------
(***************************************************************************)
(* A model of package ezdb (src/db.go): a facade over a LevelDB engine     *)
(* reached through levigo.  The handle, its option objects and the cache   *)
(* are objects with a release count; the engine's content is a finite map  *)
(* from keys to values; keys and values are byte sequences.  The engine    *)
(* (levigo) and strconv are the package's collaborators: they are modelled *)
(* by what the package's calls to them do.                                 *)
(***************************************************************************)
EXTENDS Integers, Sequences, FiniteSets, TLC

VARIABLES
    db,        \* the caller's handle: the *DB returned by Open (or a literal)
    objs,      \* every levigo object allocated so far, with its release count
    store,     \* the engine's content: a function from the stored keys to values
    lastPut,   \* history: for each key whose most recent successful operation
               \* is a put, the call made and the value it was given
    ret,       \* the last call made and what it returned
    nOpens,    \* number of Open calls made
    nCloses    \* number of Close calls made

vars == <<db, objs, store, lastPut, ret, nOpens, nCloses>>

---------------------------------------------------------------------------
(* Bounds of the model. *)

\* Open calls made in one behaviour.
MaxOpens == 2
\* Close calls made in one behaviour.
MaxCloses == 2
\* The processor fails on its n-th invocation, n in 1..MaxFailAt (0: never).
MaxFailAt == 3

---------------------------------------------------------------------------
(* Errors. *)

NoErr == "nil"
errKeyNotExists == "key does not exist"
ErrCacheNil == "levigo.NewLRUCache() == nil"
ErrMkdirAll == "os.MkdirAll failed"
ErrOpen == "levigo.Open failed"
ErrEngine == "leveldb: IO error"
ErrProcess == "processor failed"
ErrSyntax == "strconv: invalid syntax"
ErrRange == "strconv: value out of range"

---------------------------------------------------------------------------
(* Byte strings: a Go string or []byte is the sequence of its bytes.  The  *)
(* order on strings (Go's <=, and LevelDB's default comparator) is         *)
(* byte-lexicographic.                                                     *)

RECURSIVE LexLeq(_, _)
LexLeq(a, b) ==
    IF a = <<>> THEN TRUE
    ELSE IF b = <<>> THEN FALSE
    ELSE IF a[1] < b[1] THEN TRUE
    ELSE IF a[1] > b[1] THEN FALSE
    ELSE LexLeq(Tail(a), Tail(b))

LexLess(a, b) == LexLeq(a, b) /\ a # b

---------------------------------------------------------------------------
(* 64-bit words.  A uint64 (and the bits of an int64, two's complement) is *)
(* four 16-bit limbs, least significant first, so that every intermediate  *)
(* value of the arithmetic below stays a small integer.                    *)

LimbBase == 2^16

Zero64 == <<0, 0, 0, 0>>
MaxUint64 == <<65535, 65535, 65535, 65535>>
\* 1 << 63: the bits of the least int64, and the cutoff of ParseInt.
SignBit64 == <<0, 0, 0, 32768>>
\* 1 << 63 - 1: the greatest int64.
MaxInt64 == <<65535, 65535, 65535, 32767>>

\* a < b as unsigned 64-bit numbers.
LtU(a, b) ==
    \E i \in 1..4 : a[i] < b[i] /\ \A j \in (i+1)..4 : a[j] = b[j]

GeU(a, b) == ~LtU(a, b)
GtU(a, b) == LtU(b, a)

RECURSIVE AddCarry(_, _, _)
\* u + carry (mod 2^64), from limb i on.
AddCarry(u, i, carry) ==
    IF i > 4 THEN u
    ELSE LET cur == u[i] + carry
         IN  AddCarry([u EXCEPT ![i] = cur % LimbBase], i + 1, cur \div LimbBase)

\* u + d (mod 2^64) for a small d.
AddSmall(u, d) == AddCarry(u, 1, d)

RECURSIVE MulCarry(_, _, _, _)
MulCarry(u, m, i, carry) ==
    IF i > 4 THEN u
    ELSE LET cur == u[i] * m + carry
         IN  MulCarry([u EXCEPT ![i] = cur % LimbBase], m, i + 1, cur \div LimbBase)

\* u * m (mod 2^64) for a small m.
MulSmall(u, m) == MulCarry(u, m, 1, 0)

RECURSIVE DivLimbs(_, _, _, _, _)
DivLimbs(u, m, i, r, q) ==
    IF i = 0 THEN [q |-> q, r |-> r]
    ELSE LET cur == r * LimbBase + u[i]
         IN  DivLimbs(u, m, i - 1, cur % m, [q EXCEPT ![i] = cur \div m])

\* Quotient and remainder of u by a small m.
DivMod(u, m) == DivLimbs(u, m, 4, 0, Zero64)

\* -u (mod 2^64): Go's unary minus on a uint64.
Neg64(u) == AddSmall([i \in 1..4 |-> LimbBase - 1 - u[i]], 1)

\* The sign of an int64 with these bits.
IsNeg64(i) == i[4] >= 32768

---------------------------------------------------------------------------
(* strconv, as called by PutInt64, PutUint64, GetInt64 and GetUint64.      *)

RECURSIVE FormatBits(_)
\* The base-10 digits of u > 0, most significant first.
FormatBits(u) ==
    IF u = Zero64 THEN <<>>
    ELSE LET dm == DivMod(u, 10)
         IN  Append(FormatBits(dm.q), 48 + dm.r)

\* strconv.FormatUint(u, 10)
FormatUint(u) == IF u = Zero64 THEN <<48>> ELSE FormatBits(u)

\* strconv.FormatInt(i, 10): '-' and the digits of -i for a negative i.
FormatInt(i) ==
    IF IsNeg64(i) THEN <<45>> \o FormatUint(Neg64(i)) ELSE FormatUint(i)

\* The smallest number n such that n*10 overflows a uint64: maxUint64/10 + 1.
Cutoff10 == AddSmall(DivMod(MaxUint64, 10).q, 1)

RECURSIVE ParseDigits(_, _, _)
\* The loop of strconv.ParseUint(s, 10, 64) from byte i on, n parsed so far.
ParseDigits(s, i, n) ==
    IF i > Len(s) THEN [n |-> n, err |-> NoErr]
    ELSE IF ~(48 <= s[i] /\ s[i] <= 57)
         THEN [n |-> Zero64, err |-> ErrSyntax]
    ELSE IF GeU(n, Cutoff10)
         THEN [n |-> MaxUint64, err |-> ErrRange]
    ELSE LET m  == MulSmall(n, 10)
             n1 == AddSmall(m, s[i] - 48)
         IN  IF LtU(n1, m) \/ GtU(n1, MaxUint64)
             THEN [n |-> MaxUint64, err |-> ErrRange]
             ELSE ParseDigits(s, i + 1, n1)

\* strconv.ParseUint(s, 10, 64)
ParseUint(s) ==
    IF s = <<>> THEN [n |-> Zero64, err |-> ErrSyntax]
    ELSE ParseDigits(s, 1, Zero64)

\* strconv.ParseInt(s, 10, 64): an optional sign, then ParseUint.
ParseInt(s) ==
    IF s = <<>> THEN [n |-> Zero64, err |-> ErrSyntax]
    ELSE LET neg  == s[1] = 45
             body == IF s[1] = 43 \/ s[1] = 45 THEN Tail(s) ELSE s
             un   == ParseUint(body)
         IN  IF un.err # NoErr /\ un.err # ErrRange
             THEN [n |-> Zero64, err |-> un.err]
             ELSE IF ~neg /\ GeU(un.n, SignBit64)
                  THEN [n |-> MaxInt64, err |-> ErrRange]
             ELSE IF neg /\ GtU(un.n, SignBit64)
                  THEN [n |-> SignBit64, err |-> ErrRange]
             ELSE [n |-> IF neg THEN Neg64(un.n) ELSE un.n, err |-> NoErr]

---------------------------------------------------------------------------
(* The handle and the levigo objects it owns.  A pointer is the index of   *)
(* its object in objs, and 0 is the nil pointer.                           *)

\* var db *DB: the nil handle.
NilDB == [nil |-> TRUE, LevigoDB |-> 0, ro |-> 0, roIt |-> 0, wo |-> 0, cache |-> 0]

\* new(DB): a handle with every field nil.
ZeroDB == [NilDB EXCEPT !.nil = FALSE]

\* A levigo object allocated by Open call number n (0: by the caller), and
\* the number of times its Close method has been called.
NewObj(kind, n) == [kind |-> kind, closes |-> 0, open |-> n]

\* One Close() call on object id.
Release(os, id) == [os EXCEPT ![id].closes = @ + 1]

\* Open(dbPath, cacheSize), the n-th Open call, with the outcome of the
\* calls it makes: levigo.NewLRUCache returning nil, os.MkdirAll failing,
\* levigo.Open failing, or all succeeding.
Open(outcome, os, n) ==
    IF outcome = "cacheNil"
    THEN [db |-> NilDB, err |-> ErrCacheNil, objs |-> os]
    ELSE LET o1 == Append(os, NewObj("cache", n))
             o2 == Append(o1, NewObj("opts", n))
         IN  IF outcome = "mkdirFail"
             THEN [db |-> NilDB, err |-> ErrMkdirAll, objs |-> o2]
             ELSE IF outcome = "openFail"
             THEN [db |-> NilDB, err |-> ErrOpen, objs |-> o2]
             ELSE LET o3 == Append(o2, NewObj("LevigoDB", n))
                      o4 == Append(o3, NewObj("ro", n))
                      o5 == Append(o4, NewObj("roIt", n))
                      o6 == Append(o5, NewObj("wo", n))
                  IN  [db |-> [nil |-> FALSE, cache |-> Len(o1),
                               LevigoDB |-> Len(o3), ro |-> Len(o4),
                               roIt |-> Len(o5), wo |-> Len(o6)],
                       err |-> NoErr, objs |-> o6]

\* One "if db.f != nil { db.f.Close() }" of Close, after the steps in s.
CloseField(h, f, s) ==
    IF h[f] # 0
    THEN [objs |-> Release(s.objs, h[f]), log |-> Append(s.log, f)]
    ELSE s

\* Close with the cache released before the engine instance.
Close_CacheBeforeEngine(h, os) ==
    LET s0 == [objs |-> os, log |-> <<>>]
    IN  IF h.nil THEN s0
        ELSE LET s1 == CloseField(h, "roIt", s0)
                 s2 == CloseField(h, "ro", s1)
                 s3 == CloseField(h, "wo", s2)
                 s4 == CloseField(h, "cache", s3)
             IN  CloseField(h, "LevigoDB", s4)

\* db.Close(): the objects after it, and the fields released, in order.
Close(h, os) ==
    LET s0 == [objs |-> os, log |-> <<>>]
    IN  IF h.nil THEN s0
        ELSE LET s1 == CloseField(h, "roIt", s0)
                 s2 == CloseField(h, "ro", s1)
                 s3 == CloseField(h, "wo", s2)
                 s4 == CloseField(h, "LevigoDB", s3)
             IN  CloseField(h, "cache", s4)

\* The handle can be used: it came from a successful Open and none of its
\* objects has been released (using it otherwise dereferences nil or a
\* destroyed object).
Usable(h, os) ==
    /\ ~h.nil
    /\ \A f \in {"LevigoDB", "ro", "roIt", "wo", "cache"} :
          h[f] # 0 /\ os[h[f]].closes = 0

---------------------------------------------------------------------------
(* The engine's byte-oriented operations, as levigo offers them.  fault    *)
(* says that the engine fails this call.                                   *)

\* levigo's DB.Get: (nil, err) on a failure, (nil, nil) for an absent key,
\* and the value (a non-nil slice, also when empty) otherwise.
LevigoGet(key, fault) ==
    IF fault THEN [value |-> <<>>, isNil |-> TRUE, err |-> ErrEngine]
    ELSE IF key \in DOMAIN store
    THEN [value |-> store[key], isNil |-> FALSE, err |-> NoErr]
    ELSE [value |-> <<>>, isNil |-> TRUE, err |-> NoErr]

\* levigo's DB.Put
LevigoPut(key, value, fault) ==
    IF fault THEN [store |-> store, err |-> ErrEngine]
    ELSE [store |-> [k \in DOMAIN store \cup {key} |->
                        IF k = key THEN value ELSE store[k]],
          err |-> NoErr]

\* levigo's DB.Delete
LevigoDelete(key, fault) ==
    IF fault THEN [store |-> store, err |-> ErrEngine]
    ELSE [store |-> [k \in DOMAIN store \ {key} |-> store[k]], err |-> NoErr]

---------------------------------------------------------------------------
(* The accessors. *)

\* Put with the key and the value handed to the engine in the wrong order.
Put_ArgsSwapped(key, value, fault) == LevigoPut(value, key, fault)

Put(key, value, fault) == LevigoPut(key, value, fault)

Get(key, fault) == LevigoGet(key, fault)

Delete(key, fault) == LevigoDelete(key, fault)

PutStr(key, value, fault) == Put(key, value, fault)

\* KeyExist testing len(v) == 0 instead of v == nil.
KeyExist_EmptyIsAbsent(key, fault) ==
    LET g == Get(key, fault)
    IN  IF g.err # NoErr THEN [exist |-> FALSE, err |-> g.err]
        ELSE IF g.isNil \/ g.value = <<>> THEN [exist |-> FALSE, err |-> NoErr]
        ELSE [exist |-> TRUE, err |-> NoErr]

KeyExist(key, fault) ==
    LET g == Get(key, fault)
    IN  IF g.err # NoErr THEN [exist |-> FALSE, err |-> g.err]
        ELSE IF g.isNil THEN [exist |-> FALSE, err |-> NoErr]
        ELSE [exist |-> TRUE, err |-> NoErr]

\* GetStr testing len(v) == 0 instead of v == nil.
GetStr_EmptyIsAbsent(key, fault) ==
    LET g == Get(key, fault)
    IN  IF g.isNil \/ g.value = <<>>
        THEN [value |-> <<>>, err |-> errKeyNotExists]
        ELSE [value |-> g.value, err |-> g.err]

GetStr(key, fault) ==
    LET g == Get(key, fault)
    IN  IF g.isNil THEN [value |-> <<>>, err |-> errKeyNotExists]
        ELSE [value |-> g.value, err |-> g.err]

PutInt64(key, value, fault) == PutStr(key, FormatInt(value), fault)

GetInt64(key, fault) ==
    LET g == GetStr(key, fault)
    IN  IF g.err # NoErr THEN [value |-> Zero64, err |-> g.err]
        ELSE LET p == ParseInt(g.value) IN [value |-> p.n, err |-> p.err]

PutUint64(key, value, fault) == PutStr(key, FormatUint(value), fault)

\* GetUint64 parsing with ParseInt and converting the result.
GetUint64_ParsesSigned(key, fault) ==
    LET g == GetStr(key, fault)
    IN  IF g.err # NoErr THEN [value |-> Zero64, err |-> g.err]
        ELSE LET p == ParseInt(g.value) IN [value |-> p.n, err |-> p.err]

GetUint64(key, fault) ==
    LET g == GetStr(key, fault)
    IN  IF g.err # NoErr THEN [value |-> Zero64, err |-> g.err]
        ELSE LET p == ParseUint(g.value) IN [value |-> p.n, err |-> p.err]

DeleteStr(key, fault) == Delete(key, fault)

---------------------------------------------------------------------------
(* The range scan.  An iterator reads a snapshot of the engine's content   *)
(* in ascending key order; its position is an index into the sorted keys.  *)
(* faultAt is the position at which the engine fails to read (0: none):    *)
(* there the iterator is invalid and GetError reports the failure.         *)

RECURSIVE SortKeys(_)
SortKeys(K) ==
    IF K = {} THEN <<>>
    ELSE LET m == CHOOSE k \in K : \A j \in K : LexLeq(k, j)
         IN  <<m>> \o SortKeys(K \ {m})

\* db.NewIterator()
NewIterator(faultAt) ==
    [keys |-> SortKeys(DOMAIN store), vals |-> store, faultAt |-> faultAt]

\* it.Seek(target): the first entry whose key is >= target.
Seek(it, target) ==
    1 + Cardinality({i \in 1..Len(it.keys) : LexLess(it.keys[i], target)})

\* it.SeekToFirst()
SeekToFirst(it) == 1

\* it.GetError()
GetError(it, pos) ==
    IF it.faultAt # 0 /\ pos = it.faultAt THEN ErrEngine ELSE NoErr

\* it.Valid()
Valid(it, pos) == pos <= Len(it.keys) /\ GetError(it, pos) = NoErr

\* The end bound taken as exclusive.
IsIteratorValidForGoThrough_Exclusive(it, pos, keyEnd) ==
    IF keyEnd # <<>>
    THEN Valid(it, pos) /\ LexLess(it.keys[pos], keyEnd)
    ELSE Valid(it, pos)

IsIteratorValidForGoThrough(it, pos, keyEnd) ==
    IF keyEnd # <<>>
    THEN Valid(it, pos) /\ LexLeq(it.keys[pos], keyEnd)
    ELSE Valid(it, pos)

\* processor.Process(k, v), the n-th invocation, of a processor that fails
\* on its failAt-th invocation (0: never).
Process(failAt, n) == IF n = failAt THEN ErrProcess ELSE NoErr

RECURSIVE GoThroughLoop_KeepsGoing(_, _, _, _, _, _, _)
\* The loop without its "return err": the error is kept in err and the
\* loop goes on (e is the error so far).
GoThroughLoop_KeepsGoing(it, pos, keyEnd, failAt, calls, nexts, e) ==
    IF ~IsIteratorValidForGoThrough(it, pos, keyEnd)
    THEN [calls |-> calls, nexts |-> nexts, pos |-> pos, err |-> e]
    ELSE LET k  == it.keys[pos]
             v  == it.vals[k]
             cs == Append(calls, <<k, v>>)
         IN  GoThroughLoop_KeepsGoing(it, pos + 1, keyEnd, failAt, cs,
                                      nexts + 1, Process(failAt, Len(cs)))

GoThroughLoop_NoReturn(it, pos, keyEnd, failAt, calls, nexts) ==
    GoThroughLoop_KeepsGoing(it, pos, keyEnd, failAt, calls, nexts, NoErr)

RECURSIVE GoThroughLoop(_, _, _, _, _, _)
\* The for loop of GoThrough from position pos on: calls are the (k, v)
\* handed to the processor so far, nexts the it.Next() calls made.
GoThroughLoop(it, pos, keyEnd, failAt, calls, nexts) ==
    IF ~IsIteratorValidForGoThrough(it, pos, keyEnd)
    THEN [calls |-> calls, nexts |-> nexts, pos |-> pos, err |-> NoErr]
    ELSE LET k  == it.keys[pos]
             v  == it.vals[k]
             cs == Append(calls, <<k, v>>)
             e  == Process(failAt, Len(cs))
         IN  IF e # NoErr
             THEN [calls |-> cs, nexts |-> nexts, pos |-> pos, err |-> e]
             ELSE GoThroughLoop(it, pos + 1, keyEnd, failAt, cs, nexts + 1)

\* db.GoThrough(keyStart, keyEnd, processor): what it returns, what the
\* processor saw, and the Close calls made on the iterator (the defer).
GoThrough(keyStart, keyEnd, failAt, faultAt) ==
    LET it   == NewIterator(faultAt)
        pos0 == IF keyStart # <<>> THEN Seek(it, keyStart) ELSE SeekToFirst(it)
        r    == GoThroughLoop(it, pos0, keyEnd, failAt, <<>>, 0)
        e    == IF r.err # NoErr THEN r.err ELSE GetError(it, r.pos)
    IN  [err |-> e, calls |-> r.calls, nexts |-> r.nexts,
         itErr |-> GetError(it, r.pos), itCloses |-> 1]

---------------------------------------------------------------------------
(* The calls a program makes.  Each records in ret what it was given and   *)
(* what it returned.                                                       *)

Init ==
    /\ db = NilDB
    /\ objs = <<>>
    /\ store = <<>>
    /\ lastPut = <<>>
    /\ ret = [op |-> "none"]
    /\ nOpens = 0
    /\ nCloses = 0

\* The history after a successful put of arg under key by method by.
Recorded(key, by, arg) ==
    [k \in DOMAIN lastPut \cup {key} |->
        IF k = key THEN [by |-> by, arg |-> arg] ELSE lastPut[k]]

\* The history after a successful delete of key.
Forgotten(key) == [k \in DOMAIN lastPut \ {key} |-> lastPut[k]]

\* db, err := Open(path, size), by a caller that holds no usable handle.
CallOpen(outcome) ==
    /\ nOpens < MaxOpens
    /\ ~Usable(db, objs)
    /\ LET r == Open(outcome, objs, nOpens + 1)
       IN  /\ db' = r.db
           /\ objs' = r.objs
           /\ ret' = [op |-> "Open", err |-> r.err, n |-> nOpens + 1,
                      outcome |-> outcome]
    /\ nOpens' = nOpens + 1
    /\ UNCHANGED <<store, lastPut, nCloses>>

\* db := new(DB), or db := &DB{LevigoDB: ldb} with an engine instance the
\* caller opened itself: a handle that Open did not populate.
CallNewDB(withEngine) ==
    /\ db.nil
    /\ nOpens < MaxOpens
    /\ IF withEngine
       THEN /\ objs' = Append(objs, NewObj("LevigoDB", 0))
            /\ db' = [ZeroDB EXCEPT !.LevigoDB = Len(objs) + 1]
       ELSE /\ objs' = objs
            /\ db' = ZeroDB
    /\ ret' = [op |-> "NewDB"]
    /\ UNCHANGED <<store, lastPut, nOpens, nCloses>>

\* db.Close(), on any handle: nil, a literal, open, or closed before.
CallClose ==
    /\ nCloses < MaxCloses
    /\ LET r == Close(db, objs)
       IN  /\ objs' = r.objs
           /\ ret' = [op |-> "Close", log |-> r.log, handle |-> db]
    /\ nCloses' = nCloses + 1
    /\ UNCHANGED <<db, store, lastPut, nOpens>>

\* The writes share this: the engine's new content, and the history.
Written(r, key, by, arg) ==
    /\ store' = r.store
    /\ lastPut' = IF r.err # NoErr THEN lastPut
                  ELSE IF by \in {"Delete", "DeleteStr"} THEN Forgotten(key)
                  ELSE Recorded(key, by, arg)
    /\ ret' = [op |-> by, key |-> key, arg |-> arg, err |-> r.err]
    /\ UNCHANGED <<db, objs, nOpens, nCloses>>

CallPut(key, value) ==
    /\ Usable(db, objs)
    /\ \E fault \in BOOLEAN : Written(Put(key, value, fault), key, "Put", value)

CallDelete(key) ==
    /\ Usable(db, objs)
    /\ \E fault \in BOOLEAN : Written(Delete(key, fault), key, "Delete", <<>>)

CallPutStr(key, value) ==
    /\ Usable(db, objs)
    /\ \E fault \in BOOLEAN :
          Written(PutStr(key, value, fault), key, "PutStr", value)

CallDeleteStr(key) ==
    /\ Usable(db, objs)
    /\ \E fault \in BOOLEAN :
          Written(DeleteStr(key, fault), key, "DeleteStr", <<>>)

CallPutInt64(key, value) ==
    /\ Usable(db, objs)
    /\ \E fault \in BOOLEAN :
          Written(PutInt64(key, value, fault), key, "PutInt64", value)

CallPutUint64(key, value) ==
    /\ Usable(db, objs)
    /\ \E fault \in BOOLEAN :
          Written(PutUint64(key, value, fault), key, "PutUint64", value)

\* The reads share this: nothing changes but ret.
Read(r) ==
    /\ ret' = r
    /\ UNCHANGED <<db, objs, store, lastPut, nOpens, nCloses>>

CallGet(key) ==
    /\ Usable(db, objs)
    /\ \E fault \in BOOLEAN :
          LET g == Get(key, fault)
          IN  Read([op |-> "Get", key |-> key, fault |-> fault,
                    value |-> g.value, isNil |-> g.isNil, err |-> g.err])

CallKeyExist(key) ==
    /\ Usable(db, objs)
    /\ \E fault \in BOOLEAN :
          LET g == KeyExist(key, fault)
          IN  Read([op |-> "KeyExist", key |-> key, fault |-> fault,
                    exist |-> g.exist, err |-> g.err])

CallGetStr(key) ==
    /\ Usable(db, objs)
    /\ \E fault \in BOOLEAN :
          LET g == GetStr(key, fault)
          IN  Read([op |-> "GetStr", key |-> key, fault |-> fault,
                    value |-> g.value, err |-> g.err])

CallGetInt64(key) ==
    /\ Usable(db, objs)
    /\ \E fault \in BOOLEAN :
          LET g == GetInt64(key, fault)
          IN  Read([op |-> "GetInt64", key |-> key, fault |-> fault,
                    value |-> g.value, err |-> g.err])

CallGetUint64(key) ==
    /\ Usable(db, objs)
    /\ \E fault \in BOOLEAN :
          LET g == GetUint64(key, fault)
          IN  Read([op |-> "GetUint64", key |-> key, fault |-> fault,
                    value |-> g.value, err |-> g.err])

CallGoThrough(keyStart, keyEnd, failAt) ==
    /\ Usable(db, objs)
    /\ \E faultAt \in 0..Cardinality(DOMAIN store) :
          LET g == GoThrough(keyStart, keyEnd, failAt, faultAt)
          IN  Read([op |-> "GoThrough", keyStart |-> keyStart,
                    keyEnd |-> keyEnd, failAt |-> failAt, faultAt |-> faultAt,
                    err |-> g.err, calls |-> g.calls, nexts |-> g.nexts,
                    itErr |-> g.itErr, itCloses |-> g.itCloses])

---------------------------------------------------------------------------
(* Spec: the life of a handle.  Open with each of its outcomes, handles    *)
(* the caller makes itself, Close on any of them, and on an open handle a  *)
(* put and a scan.                                                         *)

Outcomes == {"cacheNil", "mkdirFail", "openFail", "ok"}

Next ==
    \/ \E o \in Outcomes : CallOpen(o)
    \/ \E e \in BOOLEAN : CallNewDB(e)
    \/ CallClose
    \/ CallPut(<<97>>, <<120>>)
    \/ \E n \in 0..1 : CallGoThrough(<<>>, <<>>, n)

Spec == Init /\ [][Next]_vars

---------------------------------------------------------------------------
(* SpecKV: the byte and string accessors on an open handle.                *)

\* "", "a", "b"
Keys == {<<>>, <<97>>, <<98>>}
\* "", "x", "yz"
Values == {<<>>, <<120>>, <<121, 122>>}

NextKV ==
    \/ CallOpen("ok")
    \/ \E k \in Keys, v \in Values : CallPut(k, v)
    \/ \E k \in Keys, v \in Values : CallPutStr(k, v)
    \/ \E k \in Keys : CallDelete(k)
    \/ \E k \in Keys : CallDeleteStr(k)
    \/ \E k \in Keys : CallGet(k)
    \/ \E k \in Keys : CallKeyExist(k)
    \/ \E k \in Keys : CallGetStr(k)

SpecKV == Init /\ [][NextKV]_vars

---------------------------------------------------------------------------
(* SpecScan: the range scan over the keys a..e, each stored (when stored)  *)
(* with its upper-case letter as value, between bounds that are stored     *)
(* keys, lie between stored keys ("bb"), or lie beyond them ("f").         *)

\* "a", "b", "c", "d", "e"
ScanKeys == {<<97>>, <<98>>, <<99>>, <<100>>, <<101>>}
\* "", "a", "b", "bb", "d", "f"
ScanBounds == {<<>>, <<97>>, <<98>>, <<98, 98>>, <<100>>, <<102>>}
ScanValue(k) == <<k[1] - 32>>

NextScan ==
    \/ CallOpen("ok")
    \/ \E k \in ScanKeys : CallPutStr(k, ScanValue(k))
    \/ \E k \in ScanKeys : CallDeleteStr(k)
    \* A scan changes nothing it reads: a scan made right after a scan
    \* returns what a first scan with its arguments returns.  The scans
    \* made here are those that follow another call.
    \/ /\ ret.op # "GoThrough"
       /\ \E ks \in ScanBounds, ke \in ScanBounds, n \in 0..MaxFailAt :
             CallGoThrough(ks, ke, n)

SpecScan == Init /\ [][NextScan]_vars

---------------------------------------------------------------------------
(* SpecInt: the integer accessors on one key.  The integers put are these  *)
(* 64-bit words, each with its decimal spelling as an int64 and as a       *)
(* uint64; the strings put are not the spelling of any integer put.        *)

Samples == <<
    \* 0
    [bits |-> <<0, 0, 0, 0>>, s |-> <<48>>, u |-> <<48>>],
    \* 10
    [bits |-> <<10, 0, 0, 0>>, s |-> <<49, 48>>, u |-> <<49, 48>>],
    \* 65536
    [bits |-> <<0, 1, 0, 0>>,
     s |-> <<54, 53, 53, 51, 54>>,
     u |-> <<54, 53, 53, 51, 54>>],
    \* 9223372036854775807, the greatest int64
    [bits |-> <<65535, 65535, 65535, 32767>>,
     s |-> <<57, 50, 50, 51, 51, 55, 50, 48, 51, 54, 56, 53, 52, 55, 55, 53, 56, 48, 55>>,
     u |-> <<57, 50, 50, 51, 51, 55, 50, 48, 51, 54, 56, 53, 52, 55, 55, 53, 56, 48, 55>>],
    \* 9223372036854775808 as uint64, -9223372036854775808 as int64
    [bits |-> <<0, 0, 0, 32768>>,
     s |-> <<45, 57, 50, 50, 51, 51, 55, 50, 48, 51, 54, 56, 53, 52, 55, 55, 53, 56, 48, 56>>,
     u |-> <<57, 50, 50, 51, 51, 55, 50, 48, 51, 54, 56, 53, 52, 55, 55, 53, 56, 48, 56>>],
    \* 18446744073709551615 as uint64, -1 as int64
    [bits |-> <<65535, 65535, 65535, 65535>>,
     s |-> <<45, 49>>,
     u |-> <<49, 56, 52, 52, 54, 55, 52, 52, 48, 55, 51, 55, 48, 57, 53, 53, 49, 54, 49, 53>>],
    \* 18446744073709551606 as uint64, -10 as int64
    [bits |-> <<65526, 65535, 65535, 65535>>,
     s |-> <<45, 49, 48>>,
     u |-> <<49, 56, 52, 52, 54, 55, 52, 52, 48, 55, 51, 55, 48, 57, 53, 53, 49, 54, 48, 54>>],
    \* 12345678901234567890 as uint64, -6101065172474983726 as int64
    [bits |-> <<2770, 60191, 43404, 43860>>,
     s |-> <<45, 54, 49, 48, 49, 48, 54, 53, 49, 55, 50, 52, 55, 52, 57, 56, 51, 55, 50, 54>>,
     u |-> <<49, 50, 51, 52, 53, 54, 55, 56, 57, 48, 49, 50, 51, 52, 53, 54, 55, 56, 57, 48>>]
    >>

Strings == {
    <<>>,               \* ""
    <<45>>,             \* "-"
    <<97, 98, 99>>,     \* "abc"
    <<43, 53>>,         \* "+5"
    <<48, 48, 55>>,     \* "007"
    <<45, 48>>,         \* "-0"
    <<45, 48, 48, 55>>, \* "-007"
    <<49, 50, 97>>,     \* "12a"
    <<49, 95, 48>>,     \* "1_0"
    \* "18446744073709551616", 2^64
    <<49, 56, 52, 52, 54, 55, 52, 52, 48, 55, 51, 55, 48, 57, 53, 53, 49, 54, 49, 54>>,
    \* "-9223372036854775809", -2^63 - 1
    <<45, 57, 50, 50, 51, 51, 55, 50, 48, 51, 54, 56, 53, 52, 55, 55, 53, 56, 48, 57>>,
    \* "99999999999999999999"
    <<57, 57, 57, 57, 57, 57, 57, 57, 57, 57, 57, 57, 57, 57, 57, 57, 57, 57, 57, 57>>
    }

\* "n"
IntKey == <<110>>

NextInt ==
    \/ CallOpen("ok")
    \/ \E i \in DOMAIN Samples : CallPutInt64(IntKey, Samples[i].bits)
    \/ \E i \in DOMAIN Samples : CallPutUint64(IntKey, Samples[i].bits)
    \/ \E v \in Strings : CallPutStr(IntKey, v)
    \/ CallDeleteStr(IntKey)
    \/ CallKeyExist(IntKey)
    \/ CallGetStr(IntKey)
    \/ CallGetInt64(IntKey)
    \/ CallGetUint64(IntKey)

SpecInt == Init /\ [][NextInt]_vars

---------------------------------------------------------------------------
(* The properties.                                                         *)

Fields == {"roIt", "ro", "wo", "LevigoDB", "cache"}

\* The place of a field in the order of release the design asks for.
Rank(f) ==
    CASE f = "roIt" -> 1 [] f = "ro" -> 2 [] f = "wo" -> 3
      [] f = "LevigoDB" -> 4 [] f = "cache" -> 5

\* C1: a Close() releases the non-nil fields of its handle, each once, in
\* the order iterator read-options, point read-options, write-options,
\* engine instance, cache: the cache is never released before the engine
\* instance, and a nil field is skipped without changing the order of the
\* others (a nil handle releases nothing).
C1_CloseOrder ==
    ret.op = "Close" =>
        /\ \A i, j \in DOMAIN ret.log :
              i < j => Rank(ret.log[i]) < Rank(ret.log[j])
        /\ \A f \in Fields :
              (~ret.handle.nil /\ ret.handle[f] # 0)
                  <=> (\E i \in DOMAIN ret.log : ret.log[i] = f)

\* A Close() of a handle that Open populated has released its five fields.
C1_Witness ==
    /\ ret.op = "Close"
    /\ Len(ret.log) = 5
    /\ ret.log[4] = "LevigoDB"
    /\ ret.log[5] = "cache"

\* C2: whatever Close() calls are made on whatever handle, every object is
\* released at most once (a second Close() releases nothing).
C2_ReleasedAtMostOnce ==
    \A i \in DOMAIN objs : objs[i].closes <= 1

\* The objects Open call number n allocated.
AllocatedBy(n) == {i \in DOMAIN objs : objs[i].open = n}

\* C10: every object the package allocates is released: (1) once Open has
\* returned an error no handle is returned and the objects it allocated
\* have been released; (2) after a Close() of a handle that Open returned,
\* every object that Open allocated has been released; (3) a GoThrough
\* releases its iterator exactly once.
C10_EveryObjectReleased ==
    /\ (ret.op = "Open" /\ ret.err # NoErr) =>
          /\ db.nil
          /\ \A i \in AllocatedBy(ret.n) : objs[i].closes >= 1
    /\ (ret.op = "Close" /\ ret.handle.cache # 0) =>
          \A i \in AllocatedBy(objs[ret.handle.cache].open) :
              objs[i].closes >= 1
    /\ ret.op = "GoThrough" => ret.itCloses = 1

\* C5: with the engine's read succeeding, KeyExist(k) returns (true, nil)
\* if the most recent operation on k is a put, of whatever value, and
\* (false, nil) if k was never put or was deleted since.
C5_KeyExist ==
    (ret.op = "KeyExist" /\ ~ret.fault) =>
        /\ ret.err = NoErr
        /\ ret.exist <=> ret.key \in DOMAIN lastPut

\* KeyExist has returned true for a key put with the empty value.
C5_Witness ==
    /\ ret.op = "KeyExist"
    /\ ~ret.fault
    /\ ret.exist
    /\ ret.key \in DOMAIN lastPut
    /\ lastPut[ret.key].arg = <<>>

\* C6: with the engine's read succeeding, GetStr(k) returns the
\* key-not-found error exactly when k is absent, and for a present key the
\* value put and no error (the empty string for the empty value).
C6_GetStr ==
    (ret.op = "GetStr" /\ ~ret.fault) =>
        /\ ret.err = errKeyNotExists <=> ret.key \notin DOMAIN lastPut
        /\ ret.key \in DOMAIN lastPut =>
              ret.err = NoErr /\ ret.value = lastPut[ret.key].arg

\* GetStr has returned ("", nil) for a key put with the empty value.
C6_Witness ==
    /\ ret.op = "GetStr"
    /\ ~ret.fault
    /\ ret.key \in DOMAIN lastPut
    /\ lastPut[ret.key].arg = <<>>
    /\ ret.err = NoErr

\* C8: with the engine's read succeeding, Get(k) returns the value of the
\* most recent put of k, whatever was done to other keys since, and no
\* value and no error for an absent key.
C8_GetRoundTrip ==
    (ret.op = "Get" /\ ~ret.fault) =>
        /\ ret.err = NoErr
        /\ IF ret.key \in DOMAIN lastPut
           THEN ~ret.isNil /\ ret.value = lastPut[ret.key].arg
           ELSE ret.isNil

\* Get has returned the value put under a key while another key holds
\* another value.
C8_Witness ==
    /\ ret.op = "Get"
    /\ ~ret.fault
    /\ ret.key \in DOMAIN lastPut
    /\ ret.value = lastPut[ret.key].arg
    /\ \E k \in DOMAIN lastPut : lastPut[k].arg # ret.value

\* C7: when the engine's read fails with an error, KeyExist returns
\* (false, that error) and GetStr, GetInt64 and GetUint64 return that error,
\* not the key-not-found error and not a success.
C7_EngineErrorReturned ==
    (ret.op \in {"KeyExist", "GetStr", "GetInt64", "GetUint64"} /\ ret.fault) =>
        /\ ret.err = ErrEngine
        /\ ret.op = "KeyExist" => ~ret.exist

\* The keys a scan with these bounds is to visit: an empty bound is no bound.
InRange(k, keyStart, keyEnd) ==
    /\ keyStart = <<>> \/ LexLeq(keyStart, k)
    /\ keyEnd = <<>> \/ LexLeq(k, keyEnd)

\* The processor of the last scan returned an error: it was invoked as many
\* times as it takes for it to fail.
ProcessorFailed == ret.failAt >= 1 /\ Len(ret.calls) >= ret.failAt

\* C3: a GoThrough(keyStart, keyEnd, p) whose processor never fails (and
\* whose iterator reports no error) invokes p exactly once for each stored
\* key within the bounds and for no other key, in strictly ascending key
\* order, with the value stored under the key, and returns no error.
C3_ScanBounds ==
    (ret.op = "GoThrough" /\ ~ProcessorFailed /\ ret.itErr = NoErr) =>
        /\ ret.err = NoErr
        /\ {ret.calls[i][1] : i \in DOMAIN ret.calls}
              = {k \in DOMAIN store : InRange(k, ret.keyStart, ret.keyEnd)}
        /\ \A i, j \in DOMAIN ret.calls :
              i < j => LexLess(ret.calls[i][1], ret.calls[j][1])
        /\ \A i \in DOMAIN ret.calls :
              ret.calls[i][2] = store[ret.calls[i][1]]

\* Over the keys a..e, GoThrough("b", "d", p) has invoked p for b, c, d.
C3_Witness ==
    /\ ret.op = "GoThrough"
    /\ DOMAIN store = ScanKeys
    /\ ret.keyStart = <<98>>
    /\ ret.keyEnd = <<100>>
    /\ ret.err = NoErr
    /\ ret.calls = << <<(<<98>>), (<<66>>)>>, <<(<<99>>), (<<67>>)>>,
                     <<(<<100>>), (<<68>>)>> >>

\* C4: if the processor returns an error on its n-th invocation, GoThrough
\* returns that error, the processor is invoked n times in all, and the
\* iterator is advanced n - 1 times: not again after the error.
C4_EarlyTermination ==
    (ret.op = "GoThrough" /\ ProcessorFailed) =>
        /\ ret.err = ErrProcess
        /\ Len(ret.calls) = ret.failAt
        /\ ret.nexts = ret.failAt - 1

\* The processor has failed on its second invocation with more keys within
\* the bounds left to visit.
C4_Witness ==
    /\ ret.op = "GoThrough"
    /\ ret.failAt = 2
    /\ Len(ret.calls) = 2
    /\ ret.err = ErrProcess
    /\ Cardinality({k \in DOMAIN store :
                       InRange(k, ret.keyStart, ret.keyEnd)}) > 2

\* The sample with these bits.
SampleOf(bits) == Samples[CHOOSE i \in DOMAIN Samples : Samples[i].bits = bits]

IsDigits(d) == d # <<>> /\ \A i \in DOMAIN d : 48 <= d[i] /\ d[i] <= 57

RECURSIVE StripZeros(_)
StripZeros(d) == IF Len(d) > 1 /\ d[1] = 48 THEN StripZeros(Tail(d)) ELSE d

\* s spells a decimal integer: an optional sign, then digits.
IsNumeral(s) ==
    s # <<>> /\ IsDigits(IF s[1] \in {43, 45} THEN Tail(s) ELSE s)

\* The spelling of the integer that numeral s spells without a '+', without
\* leading zeros, and without a '-' before zero.
Canonical(s) ==
    LET digits == StripZeros(IF s[1] \in {43, 45} THEN Tail(s) ELSE s)
    IN  IF s[1] = 45 /\ digits # <<48>> THEN <<45>> \o digits ELSE digits

\* C9: a PutInt64(k, n) stores the base-10 spelling of n, and a GetInt64(k)
\* after it returns n and no error, also for the least and the greatest
\* int64; the same for PutUint64 and GetUint64, also for 2^64 - 1.  A
\* GetInt64 or GetUint64 that returns no error returns the integer the
\* stored string spells: it returns a parse error for any other string, so
\* GetUint64 after a PutInt64 of a negative number and GetInt64 after a
\* PutUint64 of a number above 2^63 - 1 return a parse error.
C9_IntRoundTrip ==
    /\ \A k \in DOMAIN lastPut :
          /\ lastPut[k].by = "PutInt64" => store[k] = SampleOf(lastPut[k].arg).s
          /\ lastPut[k].by = "PutUint64" => store[k] = SampleOf(lastPut[k].arg).u
    /\ (ret.op = "GetInt64" /\ ~ret.fault /\ ret.key \in DOMAIN lastPut) =>
          LET p == lastPut[ret.key]
          IN  /\ p.by = "PutInt64" => ret.err = NoErr /\ ret.value = p.arg
              /\ ret.err = NoErr =>
                    /\ IsNumeral(store[ret.key])
                    /\ Canonical(store[ret.key]) = FormatInt(ret.value)
              /\ ret.err # NoErr => ret.err \in {ErrSyntax, ErrRange}
              /\ (p.by = "PutUint64" /\ GtU(p.arg, MaxInt64)) =>
                    ret.err = ErrRange
    /\ (ret.op = "GetUint64" /\ ~ret.fault /\ ret.key \in DOMAIN lastPut) =>
          LET p == lastPut[ret.key]
          IN  /\ p.by = "PutUint64" => ret.err = NoErr /\ ret.value = p.arg
              /\ ret.err = NoErr =>
                    /\ IsDigits(store[ret.key])
                    /\ StripZeros(store[ret.key]) = FormatUint(ret.value)
              /\ ret.err # NoErr => ret.err \in {ErrSyntax, ErrRange}
              /\ (p.by = "PutInt64" /\ IsNeg64(p.arg)) => ret.err = ErrSyntax

\* GetInt64 has returned the least int64 after a PutInt64 of it.
C9_Witness ==
    /\ ret.op = "GetInt64"
    /\ ~ret.fault
    /\ ret.key \in DOMAIN lastPut
    /\ lastPut[ret.key].by = "PutInt64"
    /\ lastPut[ret.key].arg = SignBit64
    /\ ret.value = SignBit64
    /\ ret.err = NoErr

=============================================================================
